---- MODULE Spec2Model ----
(***************************************************************************)
(* Session-lifecycle state machine and frame-scheduling loop of the Xr     *)
(* video.js plugin (src/src/plugin.js).                                    *)
(*                                                                         *)
(* The plugin runs on a single-threaded event loop.  Every action below is *)
(* one task of that loop: a host call (init, reset, dispose), a window     *)
(* event, a frame callback, or the settlement of a promise together with   *)
(* the continuations (microtasks) it runs.  The handlers are written as    *)
(* operators from plugin state to plugin state so that a handler calling   *)
(* another one (init -> reset, the session's 'end' listener -> the         *)
(* deactivate handler -> its continuation) is modelled whole.              *)
(***************************************************************************)
EXTENDS Integers, FiniteSets, Sequences, TLC

\* ---------------------------------------------------------------- bounds
MaxSessions == 1        \* immersive sessions the runtime grants in one run
MaxFrames   == 2        \* frame callbacks pending at once, over all clocks
MaxProbes   == 2        \* isSessionSupported promises in flight at once
MaxInits    == 2        \* init() calls that reach the subscription block
MaxCanvas   == 1        \* canvases in the document at once

\* ---------------------------------------------------------------- values
Null     == 0                       \* null / undefined object reference
Desk     == 0                       \* the player's (desktop) clock
Sessions == 1..MaxSessions          \* session objects; also their clocks
NoId     == [clk |-> Desk, n |-> 0] \* a falsy frame handle (undefined / 0)
WindowEvents == {"vrdisplaypresentchange", "resize",
                 "vrdisplayactivate", "vrdisplaydeactivate"}
Dims     == {<<2, 1>>, <<1, 1>>}    \* (currentWidth, currentHeight) reports

NoOut == [err |-> "none", emit |-> <<>>, log |-> <<>>,
          sched |-> <<>>, cancel |-> <<>>, fx |-> {}]

VARIABLES
  navXr,              \* window.navigator.xr is present
  disposed,           \* dispose() has completed
  initialized_,       \* this.initialized_
  xrSupported,        \* this.xrSupported
  xrActive,           \* this.xrActive
  currentSession,     \* this.currentSession (Null or a session)
  rendererSession,    \* the session bound by this.renderer.xr.setSession
  xrReferenceSpace,   \* this.xrReferenceSpace (Null or the session it is of)
  controls3d,         \* this.controls3d: "null", "enabled" or "disabled"
  animationFrameId_,  \* this.animationFrameId_
  pending,            \* frame callbacks scheduled and not fired or cancelled
  sess,               \* each session: "unborn", "live" or "ended"
  endEvent,           \* sessions whose 'end' event is queued
  endPromise,         \* sessions whose end() promise is not settled yet
  reqPending,         \* a requestSession promise is not settled yet
  refPending,         \* sessions whose requestReferenceSpace is not settled
  probePending,       \* isSessionSupported promises not settled yet
  windowSubs,         \* window event types handled by this plugin
  fullscreenSubs,     \* 'fullscreenchange' listeners on the player
  bigPlayButton,      \* the player has its default BigPlayButton child
  bigVrCount,         \* BigVrPlayButton children of the player
  cardboard,          \* the control bar has a CardboardButton child
  renderedCanvas,     \* this.renderedCanvas: "none", "attached", "detached"
  domCanvases,        \* rendering canvases in the player's element
  videoHidden,        \* the video element is styled invisible
  rendererSize,       \* last renderer.setSize(width, height)
  cameraAspect,       \* camera.aspect as the pair (width, height)
  scenarioB           \* history: the run so far is the walk init -> probe
                      \* supported -> Activate succeeds -> Deactivate
                      \* (repeated, with frames and resizes in between)

vars == <<navXr, disposed, initialized_, xrSupported, xrActive,
          currentSession, rendererSession, xrReferenceSpace, controls3d,
          animationFrameId_, pending, sess, endEvent, endPromise,
          reqPending, refPending, probePending, windowSubs, fullscreenSubs, bigPlayButton,
          bigVrCount, cardboard, renderedCanvas, domCanvases, videoHidden,
          rendererSize, cameraAspect, scenarioB>>

\* The plugin and its environment as one record, at the start of a task.
\* Its field out collects what the task does besides changing the state:
\* the exception it raises, the events it emits, what it logs, the frames it
\* schedules and cancels, and the effects of the render step.
Cur ==
  [navXr |-> navXr, disposed |-> disposed, initialized_ |-> initialized_,
   xrSupported |-> xrSupported, xrActive |-> xrActive,
   currentSession |-> currentSession, rendererSession |-> rendererSession,
   xrReferenceSpace |-> xrReferenceSpace,
   controls3d |-> controls3d, animationFrameId_ |-> animationFrameId_,
   pending |-> pending, sess |-> sess, endEvent |-> endEvent,
   endPromise |-> endPromise, reqPending |-> reqPending,
   refPending |-> refPending, probePending |-> probePending,
   windowSubs |-> windowSubs, fullscreenSubs |-> fullscreenSubs,
   bigPlayButton |-> bigPlayButton, bigVrCount |-> bigVrCount,
   cardboard |-> cardboard, renderedCanvas |-> renderedCanvas,
   domCanvases |-> domCanvases, videoHidden |-> videoHidden,
   rendererSize |-> rendererSize, cameraAspect |-> cameraAspect,
   scenarioB |-> scenarioB, out |-> NoOut]

\* The state a task leaves behind.
Commit(S) ==
  /\ navXr' = S.navXr
  /\ disposed' = S.disposed
  /\ initialized_' = S.initialized_
  /\ xrSupported' = S.xrSupported
  /\ xrActive' = S.xrActive
  /\ currentSession' = S.currentSession
  /\ rendererSession' = S.rendererSession
  /\ xrReferenceSpace' = S.xrReferenceSpace
  /\ controls3d' = S.controls3d
  /\ animationFrameId_' = S.animationFrameId_
  /\ pending' = S.pending
  /\ sess' = S.sess
  /\ endEvent' = S.endEvent
  /\ endPromise' = S.endPromise
  /\ reqPending' = S.reqPending
  /\ refPending' = S.refPending
  /\ probePending' = S.probePending
  /\ windowSubs' = S.windowSubs
  /\ fullscreenSubs' = S.fullscreenSubs
  /\ bigPlayButton' = S.bigPlayButton
  /\ bigVrCount' = S.bigVrCount
  /\ cardboard' = S.cardboard
  /\ renderedCanvas' = S.renderedCanvas
  /\ domCanvases' = S.domCanvases
  /\ videoHidden' = S.videoHidden
  /\ rendererSize' = S.rendererSize
  /\ cameraAspect' = S.cameraAspect
  /\ scenarioB' = S.scenarioB
  \* bounds of the model
  /\ Cardinality(S.pending) <= MaxFrames
  /\ S.probePending <= MaxProbes
  /\ S.fullscreenSubs <= MaxInits
  /\ S.domCanvases <= MaxCanvas

\* ------------------------------------------------------- step outputs
Throw(S, e)  == [S EXCEPT !.out.err = e]
Emit(S, ev)  == [S EXCEPT !.out.emit = Append(@, ev)]
Log(S, m)    == [S EXCEPT !.out.log = Append(@, m)]
Failed(S)    == S.out.err # "none"
\* The plugin's own code raised: in a task ("TypeError") or in a promise
\* continuation ("TypeErrorInContinuation").  "UnhandledRejection" is a
\* promise of the runtime that rejected with no handler attached.
Raised(S)    == S.out.err \in {"TypeError", "TypeErrorInContinuation"}

\* ------------------------------------------------------ frame scheduler
\* A handle is named by its clock and the smallest number not pending on
\* that clock.  A real clock never reuses a number, but every call site of
\* requestAnimationFrame (lines 78, 101, 138, 253) stores the result in
\* animationFrameId_, so the only stale handle the plugin can hold is
\* overwritten by the very call that would reuse its name.
FreshId(S, c) ==
  LET used == {h.n : h \in {p \in S.pending : p.clk = c}}
  IN [clk |-> c,
      n |-> CHOOSE k \in 1..(MaxFrames + 2) :
              /\ k \notin used
              /\ \A j \in 1..(k - 1) : j \in used]

\* The clock a call is dispatched to (src/src/plugin.js:106, 113).
ActiveClock(S) == IF S.xrActive THEN S.currentSession ELSE Desk

\* Mutant of requestAnimationFrame: the clock is not chosen by xrActive;
\* every frame is requested from the player.
requestAnimationFrame_DesktopOnly(S) ==
  LET h == FreshId(S, Desk)
  IN [S EXCEPT !.animationFrameId_ = h,
               !.pending = @ \cup {h},
               !.out.sched = Append(@, Desk)]

\* this.animationFrameId_ = this.requestAnimationFrame(this.animate_)
\* A session that has ended schedules nothing and returns 0.
requestAnimationFrame(S) ==
  IF S.xrActive /\ S.currentSession = Null
  THEN Throw(S, "TypeError")
  ELSE IF S.xrActive /\ S.sess[S.currentSession] # "live"
  THEN [S EXCEPT !.animationFrameId_ = [clk |-> S.currentSession, n |-> 0]]
  ELSE LET h == FreshId(S, ActiveClock(S))
       IN [S EXCEPT !.animationFrameId_ = h,
                    !.pending = @ \cup {h},
                    !.out.sched = Append(@, h.clk)]

\* if (this.animationFrameId_) this.cancelAnimationFrame(this.animationFrameId_)
cancelAnimationFrame(S) ==
  IF S.animationFrameId_.n = 0
  THEN S
  ELSE IF S.xrActive /\ S.currentSession = Null
  THEN Throw(S, "TypeError")
  ELSE LET c == ActiveClock(S)
       IN [S EXCEPT
             !.pending = IF S.animationFrameId_.clk = c
                         THEN @ \ {S.animationFrameId_} ELSE @,
             !.out.cancel = Append(@, [to |-> c,
                                       of |-> S.animationFrameId_.clk])]

\* ----------------------------------------------------------- lifecycle
reset(S) ==
  IF ~S.initialized_ THEN S
  ELSE
    LET S1 == [S EXCEPT
                 !.controls3d = "null",
                 !.windowSubs = @ \ WindowEvents,
                 !.bigPlayButton = TRUE,
                 !.bigVrCount = IF @ > 0 THEN @ - 1 ELSE @,
                 \* the CardboardButton is looked up on the player, whose
                 \* child it never is, so the control bar keeps it
                 !.videoHidden = FALSE]
    IN IF S1.renderedCanvas = "detached"
       THEN Throw(S1, "TypeError")
       ELSE
         LET S2 == IF S1.renderedCanvas = "attached"
                   THEN [S1 EXCEPT !.renderedCanvas = "detached",
                                   !.domCanvases = @ - 1]
                   ELSE S1
             S3 == cancelAnimationFrame(S2)
         IN IF Failed(S3) THEN S3
            ELSE [S3 EXCEPT !.initialized_ = FALSE]

completeInitialization(S) ==
  Emit([S EXCEPT !.initialized_ = TRUE], "initialized")

init(S, dims) ==
  LET R == reset(S)
  IN IF Failed(R) THEN R
     ELSE
       LET S1 == [R EXCEPT
                    !.xrSupported = FALSE,
                    !.cameraAspect = dims,
                    !.bigPlayButton = FALSE,
                    !.bigVrCount = @ + 1,
                    !.rendererSession = Null,
                    !.rendererSize = dims,
                    !.renderedCanvas = "attached",
                    !.domCanvases = @ + 1,
                    !.videoHidden = TRUE,
                    !.xrActive = FALSE,
                    !.controls3d = IF @ = "null" THEN "enabled" ELSE @]
       IN IF ~S1.navXr
          THEN \* 'self' is only assigned inside the navigator.xr branch
               Throw(Log(S1, "web xr not available"), "TypeError")
          ELSE
            LET S2 == [S1 EXCEPT !.probePending = @ + 1]
                S3 == requestAnimationFrame(completeInitialization(S2))
            IN IF Failed(S3) THEN S3
               ELSE [S3 EXCEPT !.fullscreenSubs = @ + 1,
                               !.windowSubs = @ \cup WindowEvents]

dispose(S) ==
  LET R == reset(S)
  IN IF Failed(R) THEN R ELSE [R EXCEPT !.disposed = TRUE]

\* ------------------------------------------------------ render step
\* Mutant of animate_: the render step does not look at initialized_.
animate_Unguarded(S, xrFrame, ready) ==
  LET S1 == [S EXCEPT !.out.fx = @ \cup (IF ready THEN {"texture"} ELSE {})
                                   \cup {"direction"}]
      S2 == requestAnimationFrame(S1)
  IN IF Failed(S2) THEN S2
     ELSE IF ~S2.xrActive /\ S2.controls3d = "null"
     THEN Throw(S2, "TypeError")
     ELSE [S2 EXCEPT !.out.fx = @ \cup {"draw"}]

\* xrFrame: the callback came from a session clock, which supplies a frame.
\* ready: the video element reports HAVE_ENOUGH_DATA.
animate_(S, xrFrame, ready) ==
  IF ~S.initialized_ THEN S
  ELSE
    LET S1 == [S EXCEPT !.out.fx = @ \cup (IF ready THEN {"texture"} ELSE {})
                                     \cup {"direction"}]
        S2 == requestAnimationFrame(S1)
    IN IF Failed(S2) THEN S2
       ELSE IF ~S2.xrActive /\ S2.controls3d = "null"
       THEN Throw(S2, "TypeError")
       ELSE
         LET S3 == IF ~S2.xrActive
                   THEN [S2 EXCEPT !.out.fx = @ \cup {"controls"}]
                   ELSE S2
             S4 == IF S3.xrActive /\ xrFrame
                   THEN Emit([S3 EXCEPT !.out.fx = @ \cup {"pose"}],
                             "xrCameraUpdate")
                   ELSE S3
         IN [S4 EXCEPT !.out.fx = @ \cup {"draw"}]

\* Mutant of handleResize_: the camera keeps its aspect.
handleResize_RendererOnly(S, dims) ==
  [S EXCEPT !.rendererSize = dims]

\* renderer.setSize(width, height); camera.aspect = width / height
handleResize_(S, dims) ==
  [S EXCEPT !.rendererSize = dims, !.cameraAspect = dims]

\* ------------------------------------------------ session state machine
\* An exception raised inside a promise continuation.
AsRejection(S) ==
  IF Failed(S) THEN [S EXCEPT !.out.err = "TypeErrorInContinuation"] ELSE S

\* The runtime shuts a session down: it is ended, its scheduled callbacks
\* never run, and its 'end' event is queued.
ShutDown(S, s) ==
  [S EXCEPT !.sess[s] = "ended",
            !.pending = {h \in @ : h.clk # s},
            !.endEvent = @ \cup {s}]

\* navigator.xr.requestSession refuses at once while an immersive session
\* is live or another request is pending.
RequestRefusedAtOnce(S) ==
  S.reqPending \/ \E s \in Sessions : S.sess[s] = "live"

handleVrDisplayActivate_(S) ==
  IF ~S.xrSupported THEN S
  ELSE
    LET S1 == cancelAnimationFrame(S)
    IN IF Failed(S1) THEN S1
       ELSE IF S1.controls3d = "null" THEN Throw(S1, "TypeError")
       ELSE
         LET S2 == [S1 EXCEPT !.controls3d = "disabled"]
         IN IF RequestRefusedAtOnce(S2)
            THEN Throw(S2, "UnhandledRejection")
            ELSE [S2 EXCEPT !.reqPending = TRUE]

\* The continuation of requestSession (lines 64-73) with the new session s.
sessionGranted(S, s) ==
  [S EXCEPT !.sess[s] = "live",
            !.reqPending = FALSE,
            !.rendererSession = s,
            !.currentSession = s,
            !.refPending = @ \cup {s}]

\* The continuation of requestReferenceSpace (lines 74-79).
referenceSpaceGranted(S, s) ==
  LET S1 == Emit([S EXCEPT !.refPending = @ \ {s},
                           !.xrReferenceSpace = s,
                           !.xrActive = TRUE],
                 "xrSessionActivated")
  IN AsRejection(requestAnimationFrame(S1))

\* Mutant of sessionEndSettled: the catch handler rethrows what it does not
\* recognise, so after an unexpected error the cleanup does not run.
sessionEndSettled_Rethrow(S, outcome) ==
  IF outcome = "error"
  THEN Throw(Log(S, "error"), "UnhandledRejection")
  ELSE LET S1 == [S EXCEPT !.xrActive = FALSE,
                           !.currentSession = Null,
                           !.rendererSession = Null]
       IN IF S1.controls3d = "null"
          THEN Throw(S1, "TypeErrorInContinuation")
          ELSE AsRejection(requestAnimationFrame(
                 Emit([S1 EXCEPT !.controls3d = "enabled"],
                      "xrSessionDeactivated")))

\* The chain .catch(...).then(...) on currentSession.end() (lines 91-102);
\* outcome is how end() settled: "resolved", "InvalidStateError", "error".
sessionEndSettled(S, outcome) ==
  LET S0 == IF outcome = "error" THEN Log(S, "error") ELSE S
      S1 == [S0 EXCEPT !.xrActive = FALSE,
                       !.currentSession = Null,
                       !.rendererSession = Null]
  IN IF S1.controls3d = "null"
     THEN Throw(S1, "TypeErrorInContinuation")
     ELSE AsRejection(requestAnimationFrame(
            Emit([S1 EXCEPT !.controls3d = "enabled"],
                 "xrSessionDeactivated")))

\* end() on a session that has already ended rejects at once, so its
\* continuation runs in the same task; on a live session it shuts the
\* session down and settles in a later task.
handleVrDisplayDeactivate_(S) ==
  IF ~S.xrSupported THEN S
  ELSE
    LET S1 == cancelAnimationFrame(S)
    IN IF Failed(S1) THEN S1
       ELSE IF S1.currentSession = Null THEN Throw(S1, "TypeError")
       ELSE IF S1.sess[S1.currentSession] = "ended"
       THEN sessionEndSettled(S1, "InvalidStateError")
       ELSE [ShutDown(S1, S1.currentSession)
               EXCEPT !.endPromise = @ \cup {S1.currentSession}]

\* The session's 'end' listener (lines 66-69) re-dispatches the event as
\* the window's 'vrdisplaydeactivate'.
sessionEndListener(S, s) ==
  LET S1 == Log([S EXCEPT !.endEvent = @ \ {s}], "session ended")
  IN IF "vrdisplaydeactivate" \in S1.windowSubs
     THEN handleVrDisplayDeactivate_(S1)
     ELSE S1

\* requestSession has no rejection handler: a refusal is an unhandled
\* rejection and changes nothing else.
sessionRefused(S) ==
  Throw([S EXCEPT !.reqPending = FALSE], "UnhandledRejection")

\* requestReferenceSpace has no rejection handler either.
referenceSpaceRefused(S, s) ==
  Throw([S EXCEPT !.refPending = @ \ {s}], "UnhandledRejection")

\* ------------------------------------------------------ capability probe
addCardboardButton_(S) == [S EXCEPT !.cardboard = TRUE]

\* Mutant of probeSettled: the answer of the probe is not looked at.
probeSettled_AnyAnswer(S, supported) ==
  Log(addCardboardButton_([S EXCEPT !.probePending = @ - 1,
                                    !.xrSupported = TRUE]),
      "webxr session supported")

\* The continuation of isSessionSupported (lines 238-246).
probeSettled(S, supported) ==
  LET S1 == [S EXCEPT !.probePending = @ - 1]
  IN IF supported
     THEN Log(addCardboardButton_([S1 EXCEPT !.xrSupported = TRUE]),
              "webxr session supported")
     ELSE Log(S1, "web xr device not found, using orbit controls")

\* isSessionSupported has no rejection handler.
probeRejected(S) ==
  Throw([S EXCEPT !.probePending = @ - 1], "UnhandledRejection")

\* ------------------------------------------------------------ vocabulary
\* The machine is Inactive: no session, desktop controls enabled, and the
\* frame loop waiting on the desktop clock.
Inactive(S) ==
  /\ ~S.xrActive
  /\ S.currentSession = Null
  /\ S.controls3d = "enabled"
  /\ \E h \in S.pending : h.clk = Desk

\* The machine is Active with session s.
ActiveWith(S, s) ==
  /\ S.initialized_
  /\ S.xrActive
  /\ S.currentSession = s
  /\ S.sess[s] = "live"

\* No promise of the session machine is pending and no 'end' event queued.
Settled(S) ==
  /\ ~S.reqPending
  /\ S.refPending = {}
  /\ S.endPromise = {}
  /\ S.endEvent = {}

\* ---------------------------------------------------------------- tasks
\* For each kind of task, the results it can have in the current state (one
\* per input of the environment); the action takes one of them.
InitCommon ==
  /\ disposed = FALSE
  /\ initialized_ = FALSE
  /\ xrSupported = FALSE
  /\ xrActive = FALSE
  /\ currentSession = Null
  /\ rendererSession = Null
  /\ xrReferenceSpace = Null
  /\ controls3d = "null"
  /\ animationFrameId_ = NoId
  /\ pending = {}
  /\ sess = [s \in Sessions |-> "unborn"]
  /\ endEvent = {}
  /\ endPromise = {}
  /\ reqPending = FALSE
  /\ refPending = {}
  /\ probePending = 0
  /\ windowSubs = {}
  /\ fullscreenSubs = 0
  /\ bigPlayButton = TRUE
  /\ bigVrCount = 0
  /\ cardboard = FALSE
  /\ renderedCanvas = "none"
  /\ domCanvases = 0
  /\ videoHidden = FALSE
  /\ rendererSize = <<0, 0>>
  /\ cameraAspect = <<0, 0>>
  /\ scenarioB = TRUE

\* The constructor installs the WebXR polyfill when navigator.xr is missing
\* (lines 38-39), so navigator.xr is present when init() runs.
Init == navXr = TRUE /\ InitCommon

\* The same, in a page where the polyfill did not provide navigator.xr
\* either: the case of init()'s else branch (lines 247-249).
InitNoPolyfill == navXr \in BOOLEAN /\ InitCommon

\* The history variable is kept by the tasks: a task outside the walk of
\* scenarioB ends it.
OffB(R) == [R EXCEPT !.scenarioB = FALSE]

\* The player's 'loadedmetadata' event.
LoadedMetadataTasks ==
  IF disposed THEN {}
  ELSE {[init(Cur, d) EXCEPT
           !.scenarioB = @ /\ ~initialized_ /\ renderedCanvas = "none"] :
          d \in Dims}

HostResetTasks == IF disposed THEN {} ELSE {OffB(reset(Cur))}

HostDisposeTasks == IF disposed THEN {} ELSE {OffB(dispose(Cur))}

ActivateSignalTasks ==
  IF "vrdisplayactivate" \in windowSubs
  THEN {[handleVrDisplayActivate_(Cur) EXCEPT
           !.scenarioB = @ /\ Inactive(Cur) /\ Settled(Cur)]}
  ELSE {}

DeactivateSignalTasks ==
  IF "vrdisplaydeactivate" \in windowSubs
  THEN {[handleVrDisplayDeactivate_(Cur) EXCEPT
           !.scenarioB = @ /\ Settled(Cur)
                           /\ \E s \in Sessions : ActiveWith(Cur, s)]}
  ELSE {}

ResizeTasks ==
  IF fullscreenSubs > 0 \/ "resize" \in windowSubs
  THEN {handleResize_(Cur, d) : d \in Dims}
  ELSE {}

FrameTasks ==
  {animate_([Cur EXCEPT !.pending = @ \ {h}], h.clk # Desk, ready) :
     h \in pending, ready \in BOOLEAN}

ProbeResolvesTasks ==
  IF probePending > 0
  THEN {[probeSettled(Cur, supported) EXCEPT !.scenarioB = @ /\ supported] :
          supported \in BOOLEAN}
  ELSE {}

ProbeRejectsTasks ==
  IF probePending > 0 THEN {OffB(probeRejected(Cur))} ELSE {}

\* The runtime grants the oldest session object not yet handed out.
SessionGrantedTasks ==
  IF reqPending
  THEN {sessionGranted(Cur, s) :
          s \in {t \in Sessions : /\ sess[t] = "unborn"
                                  /\ \A u \in 1..(t - 1) : sess[u] # "unborn"}}
  ELSE {}

SessionRefusedTasks ==
  IF reqPending THEN {OffB(sessionRefused(Cur))} ELSE {}

ReferenceSpaceGrantedTasks ==
  {referenceSpaceGranted(Cur, s) : s \in refPending}

\* Only a session that has ended can have its reference space refused.
ReferenceSpaceRefusedTasks ==
  {OffB(referenceSpaceRefused(Cur, s)) :
     s \in {t \in refPending : sess[t] = "ended"}}

\* The session ends without a local end(): device disconnect, system exit.
SessionEndsItselfTasks ==
  {OffB(ShutDown(Cur, s)) : s \in {t \in Sessions : sess[t] = "live"}}

SessionEndEventTasks == {sessionEndListener(Cur, s) : s \in endEvent}

\* The end() promise of a session settles after its 'end' event has fired.
SessionEndSettlesTasks ==
  {sessionEndSettled([Cur EXCEPT !.endPromise = @ \ {s}], outcome) :
     s \in endPromise \ endEvent, outcome \in {"resolved", "error"}}

LoadedMetadata        == \E R \in LoadedMetadataTasks : Commit(R)
HostReset             == \E R \in HostResetTasks : Commit(R)
HostDispose           == \E R \in HostDisposeTasks : Commit(R)
ActivateSignal        == \E R \in ActivateSignalTasks : Commit(R)
DeactivateSignal      == \E R \in DeactivateSignalTasks : Commit(R)
Resize                == \E R \in ResizeTasks : Commit(R)
FrameFires            == \E R \in FrameTasks : Commit(R)
ProbeResolves         == \E R \in ProbeResolvesTasks : Commit(R)
ProbeRejects          == \E R \in ProbeRejectsTasks : Commit(R)
SessionGranted        == \E R \in SessionGrantedTasks : Commit(R)
SessionRefused        == \E R \in SessionRefusedTasks : Commit(R)
ReferenceSpaceGranted == \E R \in ReferenceSpaceGrantedTasks : Commit(R)
ReferenceSpaceRefused == \E R \in ReferenceSpaceRefusedTasks : Commit(R)
SessionEndsItself     == \E R \in SessionEndsItselfTasks : Commit(R)
SessionEndEvent       == \E R \in SessionEndEventTasks : Commit(R)
SessionEndSettles     == \E R \in SessionEndSettlesTasks : Commit(R)

Next ==
  \/ LoadedMetadata
  \/ HostReset
  \/ HostDispose
  \/ ActivateSignal
  \/ DeactivateSignal
  \/ Resize
  \/ FrameFires
  \/ ProbeResolves
  \/ ProbeRejects
  \/ SessionGranted
  \/ SessionRefused
  \/ ReferenceSpaceGranted
  \/ ReferenceSpaceRefused
  \/ SessionEndsItself
  \/ SessionEndEvent
  \/ SessionEndSettles

Spec == Init /\ [][Next]_vars

SpecNoPolyfill == InitNoPolyfill /\ [][Next]_vars

\* P holds of the result of every task the plugin's code runs in the
\* current state (the tasks of the runtime alone, SessionEndsItself, run
\* none of it).
EveryPluginTask(P(_)) ==
  /\ \A R \in LoadedMetadataTasks : P(R)
  /\ \A R \in HostResetTasks : P(R)
  /\ \A R \in HostDisposeTasks : P(R)
  /\ \A R \in ActivateSignalTasks : P(R)
  /\ \A R \in DeactivateSignalTasks : P(R)
  /\ \A R \in ResizeTasks : P(R)
  /\ \A R \in FrameTasks : P(R)
  /\ \A R \in ProbeResolvesTasks : P(R)
  /\ \A R \in ProbeRejectsTasks : P(R)
  /\ \A R \in SessionGrantedTasks : P(R)
  /\ \A R \in SessionRefusedTasks : P(R)
  /\ \A R \in ReferenceSpaceGrantedTasks : P(R)
  /\ \A R \in ReferenceSpaceRefusedTasks : P(R)
  /\ \A R \in SessionEndEventTasks : P(R)
  /\ \A R \in SessionEndSettlesTasks : P(R)

TypeOK ==
  /\ initialized_ \in BOOLEAN
  /\ currentSession \in {Null} \cup Sessions
  /\ controls3d \in {"null", "enabled", "disabled"}
  /\ \A h \in pending : h.n > 0 /\ (h.clk = Desk \/ sess[h.clk] = "live")

\* ---------------------------------------------------------------- claims

\* C1: at most one frame callback is scheduled and not yet fired or
\* cancelled, counted over the desktop clock and the session clocks.
C1_AtMostOneFrame == Cardinality(pending) <= 1

\* C2: when the deactivate signal arrives while an activation is in
\* progress (the session requested and not yet granted, or granted and its
\* reference space not yet granted), the machine is Inactive once the
\* pending promises have resolved.
C2_DeactivateAbsorbed ==
  \A R0 \in DeactivateSignalTasks :
    /\ reqPending =>
         \A R1 \in {sessionGranted(R0, s) :
                      s \in {t \in Sessions : R0.sess[t] = "unborn"}} :
           LET R2 == referenceSpaceGranted(R1, R1.currentSession)
           IN Inactive(R2)
    /\ (currentSession # Null /\ currentSession \in refPending
        /\ sess[currentSession] = "live") =>
         LET s  == currentSession
             R1 == sessionEndListener(R0, s)
             R2 == sessionEndSettled(
                     [R1 EXCEPT !.endPromise = @ \ {s}], "resolved")
             R3 == referenceSpaceGranted(R2, s)
         IN Inactive(R3)

\* C3: immediately after any reset() the initialization flag is false and
\* none of the subscriptions registered by init() is still active.
C3_ResetReleasesSubscriptions ==
  \A R \in HostResetTasks :
    /\ ~R.initialized_
    /\ R.windowSubs = {}
    /\ R.fullscreenSubs = 0

\* C4: reset() called while a session is Active ends that session and
\* leaves xrActive false, currentSession null and initialized_ false.
C4_ResetEndsActiveSession ==
  \A s \in Sessions :
    ActiveWith(Cur, s) =>
      \A R \in HostResetTasks :
        /\ R.sess[s] = "ended"
        /\ ~R.xrActive
        /\ R.currentSession = Null
        /\ ~R.initialized_

\* C5: when requestSession rejects, the machine stays Inactive with the
\* desktop controls enabled and the desktop frame loop running, and the
\* rejection is handled.
C5_RefusalLeavesInactive ==
  \A R \in SessionRefusedTasks :
    initialized_ => (Inactive(R) /\ ~Failed(R))

\* C6: no task of the plugin (host call, event handler, frame callback,
\* promise continuation) raises an exception.
C6_NothingThrows ==
  LET NotRaised(R) == ~Raised(R)
  IN EveryPluginTask(NotRaised)

\* C8: the session handle is non-null exactly when xrActive is true.
C8_SessionIffActive == (currentSession # Null) <=> xrActive

\* C7: when a session that is Active ends on its own, its 'end' event
\* takes the machine to Inactive with the renderer's session cleared.
C7_OwnEndReachesInactive ==
  \A s \in Sessions :
    ActiveWith(Cur, s) =>
      LET R == sessionEndListener(ShutDown(Cur, s), s)
      IN Inactive(R) /\ R.rendererSession = Null

\* C9: a schedule or a cancel goes to the session clock when xrActive is
\* true at the call and to the desktop clock otherwise; and along the walk
\* init -> probe supported -> Activate succeeds -> Deactivate the first
\* frame after activation is scheduled on the session clock, the first frame
\* after deactivation on the desktop clock, and every cancel goes to the
\* clock that issued the handle it cancels.
C9_ClockByState ==
  LET ByState(R) ==
        /\ \A i \in 1..Len(R.out.sched) : R.out.sched[i] = ActiveClock(R)
        /\ \A i \in 1..Len(R.out.cancel) :
             R.out.cancel[i].to = ActiveClock(Cur)
      ToIssuer(R) ==
        \A i \in 1..Len(R.out.cancel) :
          R.out.cancel[i].to = R.out.cancel[i].of
  IN /\ EveryPluginTask(ByState)
     /\ scenarioB =>
          /\ \A s \in refPending :
               referenceSpaceGranted(Cur, s).out.sched = <<s>>
          /\ \A R \in SessionEndEventTasks : R.out.sched = <<Desk>>
          /\ EveryPluginTask(ToIssuer)

\* C9 witness: the walk has run to its end: the session was activated,
\* locally ended, and the loop is back on the desktop clock.
C9_Witness ==
  /\ scenarioB
  /\ sess[1] = "ended"
  /\ Settled(Cur)
  /\ Inactive(Cur)

\* The Deactivate transition has completed in R: the machine is Inactive,
\* 'xrSessionDeactivated' was emitted and a desktop frame scheduled, and
\* nothing was raised.
DeactivateCompleted(R) ==
  /\ Inactive(R)
  /\ R.out.emit = <<"xrSessionDeactivated">>
  /\ R.out.sched = <<Desk>>
  /\ R.animationFrameId_ \in R.pending
  /\ ~Failed(R)

C11_SecondInitOneLoop ==
  initialized_ =>
    \A R \in LoadedMetadataTasks : Cardinality(R.pending) = 1

\* C12: after an init() that aborted with the canvas inserted, the play
\* button swapped and the video hidden but the initialization flag not yet
\* set, reset() removes the canvas, restores the play button and the video
\* style, and leaves no subscription and no frame behind.
C12_ResetAfterFailedInit ==
  (~initialized_ /\ renderedCanvas = "attached") =>
    \A R \in HostResetTasks :
      /\ R.domCanvases = 0
      /\ R.bigPlayButton /\ R.bigVrCount = 0
      /\ ~R.videoHidden
      /\ R.windowSubs = {} /\ R.fullscreenSubs = 0
      /\ R.pending = {}

\* C13: a frame callback that fires while initialized_ is false does
\* nothing (no texture update, no controls update, no pose, no draw, no
\* event, no exception) and schedules no further frame; and no task draws
\* in a state where initialized_ is false.
C13_UninitializedFrameIsNoOp ==
  LET DrawsOnlyInitialized(R) == "draw" \in R.out.fx => initialized_
  IN /\ ~initialized_ =>
          \A h \in pending, ready \in BOOLEAN :
            LET S == [Cur EXCEPT !.pending = @ \ {h}]
            IN animate_(S, h.clk # Desk, ready) = S
     /\ EveryPluginTask(DrawsOnlyInitialized)

\* C13 witness: a frame is still scheduled on an instance that is not
\* initialized, and firing it leaves no frame scheduled.
C13_Witness ==
  /\ ~initialized_
  /\ \E h \in pending :
       animate_([Cur EXCEPT !.pending = @ \ {h}], h.clk # Desk, TRUE).pending
         = {}

\* C14: while the plugin is initialized and no session request, no
\* reference-space request and no session end is in flight, exactly one
\* frame callback is pending, and it is pending on the current clock.
C14_LoopAlive ==
  (initialized_ /\ Settled(Cur)) =>
    \E h \in pending : pending = {h} /\ h.clk = ActiveClock(Cur)

\* C15: when the capability probe resolves false or rejects, nothing but
\* the probe itself changes (xrSupported, xrActive, the controls and the
\* pending frame are as before, xrSupported false stays false) and the
\* plugin raises nothing; and while xrSupported is false the activate and
\* the deactivate signal handlers leave the whole state unchanged.
C15_ProbeOnlyFlipsFlag ==
  /\ probePending > 0 =>
       \A R \in {probeSettled(Cur, FALSE), probeRejected(Cur)} :
         /\ [R EXCEPT !.out = NoOut] = [Cur EXCEPT !.probePending = @ - 1]
         /\ ~Raised(R)
         /\ R.out.sched = <<>> /\ R.out.cancel = <<>> /\ R.out.emit = <<>>
  /\ ~xrSupported =>
       /\ handleVrDisplayActivate_(Cur) = Cur
       /\ handleVrDisplayDeactivate_(Cur) = Cur

\* C15 witness: on an initialized instance with a frame pending the probe
\* is about to answer 'not supported', and the signal handlers, which are
\* subscribed, do nothing.
C15_Witness ==
  /\ initialized_ /\ pending # {} /\ controls3d = "enabled"
  /\ probePending > 0
  /\ ~probeSettled(Cur, FALSE).xrSupported
  /\ {"vrdisplayactivate", "vrdisplaydeactivate"} \subseteq windowSubs
  /\ handleVrDisplayActivate_(Cur).pending = pending

\* C16: a resize or fullscreen-change event sets the renderer size to the
\* reported (width, height) and the camera aspect to width / height, and
\* changes nothing else, in desktop mode and in immersive mode alike.
C16_ResizeOnlyResizes ==
  \A R \in ResizeTasks :
    /\ \E d \in Dims : R.rendererSize = d /\ R.cameraAspect = d
    /\ [R EXCEPT !.rendererSize = rendererSize,
                 !.cameraAspect = cameraAspect] = Cur

\* C16 witness: a resize arrives in immersive mode and changes the size.
C16_Witness ==
  /\ \E s \in Sessions : ActiveWith(Cur, s)
  /\ \E R \in ResizeTasks :
       R.rendererSize # rendererSize /\ R.cameraAspect = R.rendererSize

\* C17: a promise continuation (capability probe, session request,
\* reference-space request, session end) that runs after reset(), on an
\* instance that is not initialized, applies no effect: it does not set
\* xrActive, xrSupported or currentSession, does not add the immersive-entry
\* button, does not touch the disposed controls (which raises) and
\* schedules no frame.
C17_ContinuationsRecheck ==
  ~initialized_ =>
    \A R \in ProbeResolvesTasks \cup SessionGrantedTasks
               \cup ReferenceSpaceGrantedTasks \cup SessionEndSettlesTasks :
      /\ R.xrActive => xrActive
      /\ R.xrSupported => xrSupported
      /\ R.currentSession \in {Null, currentSession}
      /\ R.cardboard => cardboard
      /\ ~Raised(R)
      /\ R.out.sched = <<>>

\* C18: whenever xrActive is true the desktop controls are disabled, and
\* whenever the plugin is initialized with no session (xrActive false,
\* currentSession null) and no session request, reference-space request or
\* session end in flight, the desktop controls are enabled.
C18_ControlsTrackSession ==
  /\ xrActive => controls3d = "disabled"
  /\ (initialized_ /\ ~xrActive /\ currentSession = Null /\ Settled(Cur)) =>
       controls3d = "enabled"

\* C19: for a session that is Active, the whole of its end (started by the
\* local deactivate signal: the handler, the session's 'end' event, the
\* settlement of end(); or started by the session itself: its 'end' event)
\* emits 'xrSessionDeactivated' exactly once and schedules exactly one
\* desktop frame.
C19_CleanupRunsOnce ==
  \A s \in Sessions :
    (ActiveWith(Cur, s) /\ xrSupported /\ Settled(Cur)
       /\ "vrdisplaydeactivate" \in windowSubs) =>
      LET Local0 == handleVrDisplayDeactivate_(Cur)
          Local1 == sessionEndListener(Local0, s)
          Local  == sessionEndSettled(
                      [Local1 EXCEPT !.endPromise = @ \ {s}], "resolved")
          Own    == sessionEndListener(ShutDown(Cur, s), s)
      IN /\ Own.out.emit = <<"xrSessionDeactivated">>
         /\ Own.out.sched = <<Desk>>
         /\ Local.out.emit = <<"xrSessionDeactivated">>
         /\ Local.out.sched = <<Desk>>

\* C20: after a reset() of an initialized instance the control bar holds
\* no CardboardButton, and the player has its BigPlayButton and no
\* BigVrPlayButton.
C20_ResetRestoresUI ==
  initialized_ =>
    \A R \in HostResetTasks :
      /\ ~R.cardboard
      /\ R.bigPlayButton
      /\ R.bigVrCount = 0

====
